---- MODULE Spec2Model ----
(***************************************************************************)
(* Keep-alive pinger: the probe / classify / track / alert pipeline of     *)
(* keepalive/main.py and keepalive/pinger.py as a state machine.           *)
(*                                                                         *)
(* A URL is the sequence of tokens that follows scheme and host, e.g.      *)
(* <<"/", "health", "?", "deep">> for https://host/health?deep.  A Python  *)
(* dict is a function whose DOMAIN is the set of keys stored so far.       *)
(***************************************************************************)
EXTENDS Integers, Sequences, FiniteSets, TLC

\* ------------------------------------------------------------------ bounds
MaxCycles == 4          \* run_once calls explored in one run
MaxProbes == 4          \* ping_url calls explored in one run
MaxRetries == 3         \* largest retries setting explored
MaxBackoff == 2         \* largest backoff_seconds setting explored
MaxThreshold == 3       \* largest alert_consecutive_failures explored
MaxUrlLen == 4          \* longest URL (in tokens) given to the classifier
MaxListLen == 3         \* longest target_urls list given to the sequence builder
MaxRawLen == 3          \* longest value (in characters) of an integer setting

\* ------------------------------------------------------ program constants
cooldown_seconds == 3600            \* LatencyAlertLimiter(cooldown_seconds=3600)
default_alert_latency_ms == 4000    \* ConfigDefaults.alert_latency_ms
default_interval_seconds == 600     \* ConfigDefaults.interval_seconds
default_timeout_seconds == 15       \* ConfigDefaults.timeout_seconds
default_retries == 2                \* ConfigDefaults.retries
default_backoff_seconds == 3        \* ConfigDefaults.backoff_seconds
default_alert_consecutive_failures == 3  \* ConfigDefaults.alert_consecutive_failures
NoneStatus == -1                    \* PingResult.status is None
None == "None"                      \* None of an Optional[str]

Max(a, b) == IF a >= b THEN a ELSE b

\* ------------------------------------------------------------- the inputs
HomeUrl == <<"/">>
HealthUrl == <<"/", "health">>
DeepUrl == <<"/", "health", "?", "deep">>
OtherUrl == <<"/", "other">>
UrlTokens == {"/", "health", "api", "?"}

SeqsUpTo(S, n) == UNION {[1..k -> S] : k \in 0..n}

\* every URL of at most MaxUrlLen tokens: empty, or starting a path or a query
AllUrls == {u \in SeqsUpTo(UrlTokens, MaxUrlLen) : u = <<>> \/ u[1] \in {"/", "?"}}
          \cup {OtherUrl, <<"/", "api", "/", "health", "/">>,
                <<"/", "api", "/", "health", "?">>}

VARIABLES
    args,               \* parsed command line: once, print_config
    environ,            \* os.environ as ConfigLoader reads it, or NoEnviron
    config,             \* KeepAliveConfig
    world,              \* what the endpoints and the clock may answer in this run
    pc,                 \* position of the process
    exit_code,          \* value returned by main(); -1 while running
    sequence,           \* list run_once iterates over
    i,                  \* index of the current URL in sequence
    cycle_success,      \* run_once local
    attempt,            \* ping_url loop variable
    result,             \* PingResult of the latest attempt
    counts,             \* FailureTracker._counts
    last_alert_by_url,  \* LatencyAlertLimiter._last_alert_by_url
    cycle,              \* number of run_once calls so far
    probes,             \* number of ping_url calls so far
    hist,               \* per URL, the is_failure values given to record
    cycle_log,          \* verdicts of the probes of the current cycle
    get_calls,          \* session.get calls of the current ping_url call
    sleeper_calls,      \* sleeper.sleep arguments of the current ping_url call
    attempt_log,        \* results of the attempts of the current ping_url call
    session_log,        \* what session.get did in each of these attempts
    probe,              \* what the loop body did with the latest ping_url result
    failure_alerts,     \* every failure-alert dispatch: url, cycle, nth probe
    latency_alerts,     \* every latency-alert dispatch: url, cycle, time
    last_delivery,      \* per kind of alert and URL, what became of the latest dispatch
    trace,              \* current cycle: ping_url calls and finished loop bodies
    interval_sleeps     \* interval_sleeper.sleep calls so far

vars == <<args, environ, config, world, pc, exit_code, sequence, i,
          cycle_success, attempt,
          result, counts, last_alert_by_url, cycle, probes, hist, cycle_log,
          get_calls, sleeper_calls, attempt_log, session_log, probe,
          failure_alerts, latency_alerts, last_delivery, trace,
          interval_sleeps>>

\* ------------------------------------------------------------ dict helpers
Get(d, k, default) == IF k \in DOMAIN d THEN d[k] ELSE default
Put(d, k, v) == [x \in DOMAIN d \cup {k} |-> IF x = k THEN v ELSE d[x]]
EmptyDict == [x \in {} |-> 0]

\* --------------------------------------------------------- config.py
\* A value of the environment is a sequence of one-character strings; in a
\* URL list the tokens of a URL stand for its characters.
DigitChars == <<"0", "1", "2", "3", "4", "5", "6", "7", "8", "9">>
DigitOf(c) == CHOOSE d \in 0..9 : DigitChars[d + 1] = c
IsDigit(c) == \E d \in 1..10 : DigitChars[d] = c

\* str.strip()
RECURSIVE strip(_)
strip(text) ==
    IF text # <<>> /\ Head(text) = " " THEN strip(Tail(text))
    ELSE IF text # <<>> /\ text[Len(text)] = " "
    THEN strip(SubSeq(text, 1, Len(text) - 1))
    ELSE text

\* str.split(",")
RECURSIVE split(_)
split(text) ==
    IF \A k \in 1..Len(text) : text[k] # "," THEN <<text>>
    ELSE LET k == CHOOSE j \in 1..Len(text) :
                      text[j] = "," /\ \A m \in 1..(j - 1) : text[m] # ","
         IN  <<SubSeq(text, 1, k - 1)>> \o split(SubSeq(text, k + 1, Len(text)))

\* value of a run of digits and underscores, read from the left
RECURSIVE digits_value(_)
digits_value(body) ==
    IF body = <<>> THEN 0
    ELSE LET front == SubSeq(body, 1, Len(body) - 1)
             last == body[Len(body)]
         IN  IF last = "_" THEN digits_value(front)
             ELSE digits_value(front) * 10 + DigitOf(last)

\* int(str): an optional sign, then digits with single underscores between
\* them, blanks around it ignored; anything else raises ValueError
int(text) ==
    LET t == strip(text)
        signed == t # <<>> /\ Head(t) \in {"+", "-"}
        body == IF signed THEN Tail(t) ELSE t
        valid == /\ body # <<>>
                 /\ \A k \in 1..Len(body) : IsDigit(body[k]) \/ body[k] = "_"
                 /\ body[1] # "_" /\ body[Len(body)] # "_"
                 /\ \A k \in 1..(Len(body) - 1) : ~(body[k] = "_" /\ body[k + 1] = "_")
    IN  IF ~valid THEN [ValueError |-> TRUE, value |-> 0]
        ELSE [ValueError |-> FALSE,
              value |-> IF signed /\ Head(t) = "-" THEN 0 - digits_value(body)
                        ELSE digits_value(body)]

\* EnvValueParser._get_raw: None for an unset or blank value
_get_raw(env, key) ==
    IF key \notin DOMAIN env THEN [is_none |-> TRUE, text |-> <<>>]
    ELSE LET stripped == strip(env[key])
         IN  [is_none |-> stripped = <<>>, text |-> stripped]

\* EnvValueParser.get_list
get_list(env, key, default) ==
    LET raw_value == _get_raw(env, key)
        parts == split(raw_value.text)
        items == SelectSeq([k \in 1..Len(parts) |-> strip(parts[k])],
                           LAMBDA item : item # <<>>)
    IN  IF raw_value.is_none THEN default
        ELSE IF items # <<>> THEN items ELSE default

\* mutant: a value below the minimum is taken as it is
get_int_no_minimum(env, key, default, min_value) ==
    LET raw_value == _get_raw(env, key)
        parsed == int(raw_value.text)
    IN  IF raw_value.is_none THEN default
        ELSE IF parsed.ValueError THEN default
        ELSE parsed.value

\* EnvValueParser.get_int
get_int(env, key, default, min_value) ==
    LET raw_value == _get_raw(env, key)
        parsed == int(raw_value.text)
    IN  IF raw_value.is_none THEN default
        ELSE IF parsed.ValueError THEN default
        ELSE IF parsed.value < min_value THEN default
        ELSE parsed.value

\* EnvValueParser.get_optional_str; of the text only its being there is kept
get_optional_str(env, key) ==
    LET raw_value == _get_raw(env, key)
    IN  IF raw_value.is_none THEN None ELSE "set"

\* ConfigDefaults.target_urls, ConfigDefaults.post_load_urls
default_target_urls == <<HomeUrl, HealthUrl>>
default_post_load_urls == <<DeepUrl>>

\* ConfigLoader.load
load(env) ==
    [target_urls |-> get_list(env, "TARGET_URLS", default_target_urls),
     post_load_urls |-> get_list(env, "POST_LOAD_URLS", default_post_load_urls),
     interval_seconds |->
         get_int(env, "INTERVAL_SECONDS", default_interval_seconds, 1),
     timeout_seconds |-> get_int(env, "TIMEOUT_SECONDS", default_timeout_seconds, 1),
     retries |-> get_int(env, "RETRIES", default_retries, 0),
     backoff_seconds |-> get_int(env, "BACKOFF_SECONDS", default_backoff_seconds, 0),
     alert_consecutive_failures |->
         get_int(env, "ALERT_CONSECUTIVE_FAILURES",
                 default_alert_consecutive_failures, 1),
     alert_latency_ms |->
         get_int(env, "ALERT_LATENCY_MS", default_alert_latency_ms, 0),
     telegram_bot_token |-> get_optional_str(env, "TELEGRAM_BOT_TOKEN"),
     telegram_chat_id |-> get_optional_str(env, "TELEGRAM_CHAT_ID")]

\* --------------------------------------------------------- pinger.py
\* mutant: no floor of one attempt
max_attempts_no_floor == config.retries + 1

\* RetryPolicy.__init__
max_attempts == Max(1, config.retries + 1)
backoff_seconds == Max(0, config.backoff_seconds)

\* mutant: off by one, the last attempt is retried too
should_retry_off_by_one(n, r) ==
    IF n > max_attempts THEN FALSE
    ELSE IF r.error # None THEN TRUE
    ELSE r.status # NoneStatus /\ r.status >= 500

\* mutant: client errors are retried like server errors
should_retry_client_errors(n, r) ==
    IF n >= max_attempts THEN FALSE
    ELSE IF r.error # None THEN TRUE
    ELSE r.status # NoneStatus /\ r.status >= 400

\* RetryPolicy.should_retry
should_retry(n, r) ==
    IF n >= max_attempts THEN FALSE
    ELSE IF r.error # None THEN TRUE
    ELSE r.status # NoneStatus /\ r.status >= 500

\* requests.Response.ok: false exactly for the 4xx and 5xx status codes
response_ok(status_code) == ~(400 <= status_code /\ status_code < 600)

\* mutant: a transport error is given the status 0
_attempt_request_status_zero(raises, status_code, latency_ms) ==
    IF raises
    THEN [ok |-> FALSE, status |-> 0, latency_ms |-> latency_ms, error |-> "boom"]
    ELSE [ok |-> response_ok(status_code), status |-> status_code,
          latency_ms |-> latency_ms, error |-> None]

\* PingerManager._attempt_request: the GET either raises a RequestException
\* or returns a response with a status code
_attempt_request(raises, status_code, latency_ms) ==
    IF raises
    THEN [ok |-> FALSE, status |-> NoneStatus, latency_ms |-> latency_ms,
          error |-> "boom"]
    ELSE [ok |-> response_ok(status_code), status |-> status_code,
          latency_ms |-> latency_ms, error |-> None]

\* the result ping_url builds after its loop
UnknownError ==
    [ok |-> FALSE, status |-> NoneStatus, latency_ms |-> 0, error |-> "Unknown error"]

\* --------------------------------------------------------- main.py
\* mutant: the post-load URLs are put after all targets
build_targets_first(target_urls, post_load_urls) == target_urls \o post_load_urls

\* mutant: a URL that is listed again is dropped
build_deduplicated(target_urls, post_load_urls) ==
    LET all == IF target_urls = <<>> THEN post_load_urls
               ELSE <<Head(target_urls)>> \o post_load_urls \o Tail(target_urls)
        keep == {j \in 1..Len(all) : \A m \in 1..(j - 1) : all[m] # all[j]}
    IN  [r \in 1..Cardinality(keep) |->
            all[CHOOSE j \in keep : Cardinality({m \in keep : m < j}) = r - 1]]

\* UrlSequenceBuilder.build
build(target_urls, post_load_urls) ==
    IF target_urls = <<>> THEN post_load_urls
    ELSE <<Head(target_urls)>> \o post_load_urls \o Tail(target_urls)

\* urlparse(url).path: what precedes the query string
RECURSIVE urlparse_path(_)
urlparse_path(url) ==
    IF url = <<>> \/ Head(url) = "?" THEN <<>>
    ELSE <<Head(url)>> \o urlparse_path(Tail(url))

\* str.rstrip("/")
RECURSIVE rstrip_slash(_)
rstrip_slash(path) ==
    IF path # <<>> /\ path[Len(path)] = "/"
    THEN rstrip_slash(SubSeq(path, 1, Len(path) - 1))
    ELSE path

health_paths == {<<"/", "health">>, <<"/", "api", "/", "health">>}

\* mutant: the trailing slash is not stripped
is_health_endpoint_no_rstrip(url) ==
    LET path == urlparse_path(url)
        normalized == IF path # <<>> THEN path ELSE <<"/">>
    IN  normalized \in health_paths

\* HealthEndpointClassifier.is_health_endpoint
is_health_endpoint(url) ==
    LET path == rstrip_slash(urlparse_path(url))
        normalized == IF path # <<>> THEN path ELSE <<"/">>
    IN  normalized \in health_paths

\* mutant: a 404 on a health path is a warning and still a failure
evaluate_warning_fails(url, r) ==
    IF r.ok THEN [is_failure |-> FALSE, is_warning_only |-> FALSE]
    ELSE IF r.status = 404 /\ is_health_endpoint(url)
    THEN [is_failure |-> TRUE, is_warning_only |-> TRUE]
    ELSE [is_failure |-> TRUE, is_warning_only |-> FALSE]

\* PingOutcomeEvaluator.evaluate
evaluate(url, r) ==
    IF r.ok THEN [is_failure |-> FALSE, is_warning_only |-> FALSE]
    ELSE IF r.status = 404 /\ is_health_endpoint(url)
    THEN [is_failure |-> FALSE, is_warning_only |-> TRUE]
    ELSE [is_failure |-> TRUE, is_warning_only |-> FALSE]

\* mutant: a non-failure leaves the count as it was
record_no_reset(c, url, is_failure) ==
    IF is_failure THEN Put(c, url, Get(c, url, 0) + 1)
    ELSE Put(c, url, Get(c, url, 0))

\* mutant: one streak for all URLs, a non-failure resets every count
record_resets_all(c, url, is_failure) ==
    IF is_failure THEN Put(c, url, Get(c, url, 0) + 1)
    ELSE [x \in DOMAIN c \cup {url} |-> 0]

\* FailureTracker.record: the dict after the call; the value returned is
\* the entry of url in it
record(c, url, is_failure) ==
    IF is_failure THEN Put(c, url, Get(c, url, 0) + 1)
    ELSE Put(c, url, 0)

\* LatencyAlertLimiter.__init__
limiter_cooldown_seconds == Max(1, cooldown_seconds)

\* mutant: the cooldown must be exceeded, not merely reached
should_alert_strict(last, url, now_epoch_seconds) ==
    IF url \notin DOMAIN last
    THEN [alert |-> TRUE, last |-> Put(last, url, now_epoch_seconds)]
    ELSE IF now_epoch_seconds - last[url] > limiter_cooldown_seconds
    THEN [alert |-> TRUE, last |-> Put(last, url, now_epoch_seconds)]
    ELSE [alert |-> FALSE, last |-> last]

\* LatencyAlertLimiter.should_alert: the value returned and the dict after
should_alert(last, url, now_epoch_seconds) ==
    IF url \notin DOMAIN last
    THEN [alert |-> TRUE, last |-> Put(last, url, now_epoch_seconds)]
    ELSE IF now_epoch_seconds - last[url] >= limiter_cooldown_seconds
    THEN [alert |-> TRUE, last |-> Put(last, url, now_epoch_seconds)]
    ELSE [alert |-> FALSE, last |-> last]

\* mutant: the configured threshold is taken as it is
failure_threshold_unclamped == config.alert_consecutive_failures

\* AlertPolicyManager.__init__
failure_threshold == Max(1, config.alert_consecutive_failures)
latency_threshold_ms == Max(0, config.alert_latency_ms)

\* mutant: level-triggered, alerts on every failure at or past the threshold
should_alert_failure_level(failure_count) == failure_count >= failure_threshold

\* mutant: past the threshold the alert is tried again until one is delivered
should_alert_failure_until_sent(failure_count) ==
    \/ failure_count = failure_threshold
    \/ /\ failure_count > failure_threshold
       /\ Get(last_delivery, <<"failure", sequence[i]>>, "sent") # "sent"

\* AlertPolicyManager.should_alert_failure
should_alert_failure(failure_count) == failure_count = failure_threshold

\* AlertPolicyManager.should_alert_latency
should_alert_latency(last, url, latency_ms, now_epoch_seconds) ==
    IF latency_ms < latency_threshold_ms
    THEN [alert |-> FALSE, last |-> last]
    ELSE should_alert(last, url, now_epoch_seconds)

\* AlertMessageBuilder
build_failure_message(url, failure_count, r) ==
    [kind |-> "failure", url |-> url, value |-> failure_count]
build_latency_message(url, latency_ms, threshold_ms) ==
    [kind |-> "latency", url |-> url, value |-> latency_ms]

\* truth value of an Optional[str]: None and the empty string are false
Truthy(text) == text # None /\ text # ""

\* mutant: the chat id is not looked at
is_configured_token_only == Truthy(config.telegram_bot_token)

\* TelegramAlertManager.is_configured
is_configured ==
    Truthy(config.telegram_bot_token) /\ Truthy(config.telegram_chat_id)

\* AlertDispatcher.dispatch: nothing is sent when unconfigured; otherwise
\* send_alert answers send_ok, and false is only reported on stderr
dispatch(message, send_ok) ==
    IF ~is_configured THEN [message |-> message, delivery |-> "skipped"]
    ELSE IF ~send_ok THEN [message |-> message, delivery |-> "failed"]
    ELSE [message |-> message, delivery |-> "sent"]

\* mutant: every hard failure is alerted, the policy is not asked
_handle_failure_alert_always(url, r, o, failure_count, send_ok) ==
    IF ~o.is_failure THEN <<>>
    ELSE <<dispatch(build_failure_message(url, failure_count, r), send_ok)>>

\* KeepAliveCoordinator._handle_failure_alert: the dispatch calls it makes
_handle_failure_alert(url, r, o, failure_count, send_ok) ==
    IF ~o.is_failure THEN <<>>
    ELSE IF should_alert_failure(failure_count)
    THEN <<dispatch(build_failure_message(url, failure_count, r), send_ok)>>
    ELSE <<>>

\* mutant: the latency of a probe that was not ok is not looked at
_handle_latency_alert_ok_only(url, r, now_epoch, send_ok) ==
    LET verdict == should_alert_latency(last_alert_by_url, url, r.latency_ms, now_epoch)
    IN  IF ~r.ok \/ ~verdict.alert
        THEN [calls |-> <<>>, last |-> IF r.ok THEN verdict.last ELSE last_alert_by_url]
        ELSE [calls |-> <<dispatch(build_latency_message(url, r.latency_ms,
                                                          latency_threshold_ms),
                                    send_ok)>>,
              last |-> verdict.last]

\* mutant: the cooldown starts only when the alert was delivered
_handle_latency_alert_stamp_if_sent(url, r, now_epoch, send_ok) ==
    LET verdict == should_alert_latency(last_alert_by_url, url, r.latency_ms, now_epoch)
        call == dispatch(build_latency_message(url, r.latency_ms,
                                               latency_threshold_ms), send_ok)
    IN  IF ~verdict.alert THEN [calls |-> <<>>, last |-> verdict.last]
        ELSE [calls |-> <<call>>,
              last |-> IF call.delivery = "sent" THEN verdict.last
                       ELSE last_alert_by_url]

\* KeepAliveCoordinator._handle_latency_alert: the dispatch calls it makes
\* and the limiter's dict after it
_handle_latency_alert(url, r, now_epoch, send_ok) ==
    LET verdict == should_alert_latency(last_alert_by_url, url, r.latency_ms, now_epoch)
    IN  IF ~verdict.alert THEN [calls |-> <<>>, last |-> verdict.last]
        ELSE [calls |-> <<dispatch(build_latency_message(url, r.latency_ms,
                                                          latency_threshold_ms),
                                    send_ok)>>,
              last |-> verdict.last]

\* ------------------------------------------------------------------- Init
Urls == {HealthUrl, OtherUrl}
Credentials == {<<None, None>>, <<"token", None>>, <<"", "chat">>, <<"token", "chat">>}

Config(targets, post_load, retries, backoff, threshold, latency_ms, cred) ==
    [target_urls |-> targets, post_load_urls |-> post_load,
     interval_seconds |-> default_interval_seconds,
     timeout_seconds |-> default_timeout_seconds,
     retries |-> retries, backoff_seconds |-> backoff,
     alert_consecutive_failures |-> threshold, alert_latency_ms |-> latency_ms,
     telegram_bot_token |-> cred[1], telegram_chat_id |-> cred[2]]

\* what session.get and time.time() may answer: the status codes, whether a
\* RequestException may be raised, the latencies, the clock readings, and
\* whether the operator may interrupt the process
World(statuses, latencies, times) ==
    [statuses |-> statuses, raises |-> BOOLEAN, latencies |-> latencies,
     times |-> times, interrupts |-> FALSE]

\* the command lines: --once and --print-config, each given or not
Args == [once : BOOLEAN, print_config : BOOLEAN]

\* the configuration was handed to the components directly, not loaded
NoEnviron == [loaded |-> FALSE, vars |-> EmptyDict]

\* A run is a configuration, a world, a command line and the environment the
\* configuration was loaded from, if it was.
\* runs that vary the URL lists and the failure-alert policy
CoordinatorRuns ==
    {<<Config(t, p, r, 1, th, default_alert_latency_ms, c),
       World({200, 404, 500}, {default_alert_latency_ms - 1}, {0}), a, NoEnviron>> :
        a \in Args, t \in SeqsUpTo(Urls, 2), p \in SeqsUpTo(Urls, 1), r \in {0, 1},
        th \in 1..MaxThreshold, c \in {<<None, None>>, <<"token", "chat">>}}

\* runs that vary the latencies, the clock and the latency-alert policy; with
\* two URLs the notifier has credentials in the runs of one cycle only
LatencyRuns ==
    {<<Config(t, <<>>, 0, 0, th, default_alert_latency_ms, c),
       World({200, 500}, {default_alert_latency_ms - 1, default_alert_latency_ms},
             {0, cooldown_seconds - 1, cooldown_seconds}), a, NoEnviron>> :
        a \in Args, th \in {1, 2},
        t \in {<<OtherUrl>>, <<HealthUrl, OtherUrl>>},
        c \in {<<None, None>>, <<"token", "chat">>}}
    \ {<<Config(<<HealthUrl, OtherUrl>>, <<>>, 0, 0, th, default_alert_latency_ms,
                <<"token", "chat">>),
          World({200, 500}, {default_alert_latency_ms - 1, default_alert_latency_ms},
                {0, cooldown_seconds - 1, cooldown_seconds}), a, NoEnviron>> :
           a \in {x \in Args : ~x.once}, th \in {1, 2}}

\* runs that vary the notifier's credentials, one cycle of one slow probe each
CredentialRuns ==
    {<<Config(<<OtherUrl>>, <<>>, 0, 0, 1, default_alert_latency_ms, c),
       World({200, 500}, {default_alert_latency_ms}, {0}), a, NoEnviron>> :
        a \in {x \in Args : x.once /\ ~x.print_config}, c \in Credentials}

\* runs that vary the retry policy and the answers of the endpoint, one
\* cycle each
PingerRuns ==
    {<<Config(<<OtherUrl>>, <<>>, r, b, 1, default_alert_latency_ms, <<None, None>>),
       World({200, 302, 403, 404, 500, 503}, {0}, {0}), a, NoEnviron>> :
        a \in {x \in Args : x.once}, r \in 0..MaxRetries, b \in 0..MaxBackoff}

\* runs whose AlertPolicyManager is built from a threshold ConfigLoader
\* would not give
ThresholdRuns ==
    {<<Config(t, <<>>, 0, 0, th, default_alert_latency_ms, c),
       World({200, 500}, {default_alert_latency_ms - 1}, {0}), a, NoEnviron>> :
        a \in {x \in Args : ~x.print_config},
        t \in {<<OtherUrl>>, <<HealthUrl, OtherUrl>>}, th \in {-1, 0},
        c \in {<<None, None>>, <<"token", "chat">>}}

\* runs whose RetryPolicy is built from numbers ConfigLoader would not give
RetryPolicyRuns ==
    {<<Config(<<OtherUrl>>, <<>>, r, b, 1, default_alert_latency_ms, <<None, None>>),
       World({200, 404, 500}, {0}, {0}), a, NoEnviron>> :
        a \in {x \in Args : ~x.print_config}, r \in {-2, -1}, b \in {-1, 0}}

\* runs that vary the URL being classified, one cycle each
ClassifierRuns ==
    {<<Config(<<u>>, <<>>, 0, 0, 1, default_alert_latency_ms, <<None, None>>),
       World({200, 302, 403, 404, 500}, {0}, {0}), a, NoEnviron>> :
        a \in {x \in Args : x.once}, u \in AllUrls}

\* runs that vary the lists given to the sequence builder, one cycle each of
\* probes that all succeed
BuilderRuns ==
    {<<Config(t, p, 0, 0, 1, default_alert_latency_ms, <<None, None>>),
       [World({200}, {0}, {0}) EXCEPT !.raises = {FALSE}], a, NoEnviron>> :
        a \in {x \in Args : x.once /\ ~x.print_config},
        t \in SeqsUpTo({HomeUrl, HealthUrl, DeepUrl}, MaxListLen),
        p \in SeqsUpTo({HomeUrl, HealthUrl, DeepUrl}, MaxListLen - 1)}

\* runs in which the operator may interrupt the process at any moment
InterruptRuns ==
    {<<Config(t, <<>>, r, 1, 1, default_alert_latency_ms, <<None, None>>),
       [World({200, 500}, {0}, {0}) EXCEPT !.interrupts = TRUE], a, NoEnviron>> :
        a \in Args, t \in {<<OtherUrl>>, <<HealthUrl, OtherUrl>>}, r \in {0, 1}}

\* the environments: one setting given, or none; two integer settings, one
\* of each minimum, are given every value, the others a few
IntKeys == {"INTERVAL_SECONDS", "TIMEOUT_SECONDS", "RETRIES", "BACKOFF_SECONDS",
            "ALERT_CONSECUTIVE_FAILURES", "ALERT_LATENCY_MS"}
ListKeys == {"TARGET_URLS", "POST_LOAD_URLS"}
StrKeys == {"TELEGRAM_BOT_TOKEN", "TELEGRAM_CHAT_ID"}
IntChars == {" ", "-", "+", "_", "0", "1", "x"}
SomeRaws == {<<"0">>, <<"1">>, <<"-", "1">>, <<"x">>, <<" ">>}
ListChars == {",", " ", "/", "health"}
Environs ==
    {EmptyDict}
        \cup {key :> raw : key \in {"INTERVAL_SECONDS", "RETRIES"},
                            raw \in SeqsUpTo(IntChars, MaxRawLen)}
        \cup {key :> raw : key \in IntKeys, raw \in SomeRaws}
        \cup {key :> raw : key \in ListKeys, raw \in SeqsUpTo(ListChars, MaxRawLen + 1)}
        \cup {key :> raw : key \in StrKeys, raw \in {<<>>, <<" ">>, <<"x">>}}
        \cup {("TELEGRAM_BOT_TOKEN" :> <<"x">>) @@ ("TELEGRAM_CHAT_ID" :> <<"x">>)}

\* environments whose configuration is run for one cycle
ProbedEnvirons ==
    {EmptyDict, "RETRIES" :> <<"0">>, "RETRIES" :> <<"-", "1">>,
     "ALERT_CONSECUTIVE_FAILURES" :> <<"0">>,
     "TARGET_URLS" :> <<"/", "health", ",", " ", "/">>}

\* runs of main() on an environment: ConfigLoader.load, then --print-config
\* or one cycle
LoaderRuns ==
    {<<load(e), World({200}, {0}, {0}), [once |-> FALSE, print_config |-> TRUE],
       [loaded |-> TRUE, vars |-> e]>> : e \in Environs}
        \cup {<<load(e), World({200}, {0}, {0}),
                 [once |-> TRUE, print_config |-> FALSE],
                 [loaded |-> TRUE, vars |-> e]>> : e \in ProbedEnvirons}

Runs ==
    CoordinatorRuns \cup LatencyRuns \cup PingerRuns \cup ClassifierRuns
        \cup InterruptRuns \cup BuilderRuns \cup LoaderRuns \cup RetryPolicyRuns
        \cup CredentialRuns \cup ThresholdRuns

Unbound == [ok |-> FALSE, status |-> NoneStatus, latency_ms |-> 0, error |-> "unbound"]
NoProbe == [valid |-> FALSE, url |-> <<>>, result |-> Unbound,
            outcome |-> [is_failure |-> FALSE, is_warning_only |-> FALSE],
            failure_count |-> 0, now |-> 0, calls |-> <<>>]

InitOf(runs) ==
    /\ \E run \in runs :
          config = run[1] /\ world = run[2] /\ args = run[3] /\ environ = run[4]
    /\ pc = "main"
    /\ exit_code = -1
    /\ sequence = <<>>
    /\ i = 0
    /\ cycle_success = TRUE
    /\ attempt = 0
    /\ result = Unbound
    /\ counts = EmptyDict
    /\ last_alert_by_url = EmptyDict
    /\ cycle = 0
    /\ probes = 0
    /\ hist = EmptyDict
    /\ cycle_log = <<>>
    /\ get_calls = 0
    /\ sleeper_calls = <<>>
    /\ attempt_log = <<>>
    /\ session_log = <<>>
    /\ probe = NoProbe
    /\ failure_alerts = <<>>
    /\ latency_alerts = <<>>
    /\ last_delivery = EmptyDict
    /\ trace = <<>>
    /\ interval_sleeps = 0

Init == InitOf(Runs)

\* ---------------------------------------------------------------- actions
\* mutant: the loop steps over the URL that follows
for_next_skips(urls, k) == IF k + 1 < Len(urls) THEN k + 2 ELSE 0

\* run_once: "for url in ...": the index of the URL the loop takes after the
\* k-th, 0 when the list is exhausted (k = 0 before the first)
for_next(urls, k) == IF k < Len(urls) THEN k + 1 ELSE 0

\* run_once up to its first ping_url call: the list is built, and an empty
\* list makes it return at once
EnterRunOnce ==
    LET urls == build(config.target_urls, config.post_load_urls)
        first == for_next(urls, 0)
    IN  /\ sequence' = urls
        /\ cycle' = cycle + 1
        /\ cycle_success' = TRUE
        /\ cycle_log' = <<>>
        /\ i' = IF first = 0 THEN 1 ELSE first
        /\ attempt' = 1
        /\ probes' = IF first = 0 THEN probes ELSE probes + 1
        /\ trace' = IF first = 0 THEN <<>>
                    ELSE <<[event |-> "ping_url", url |-> urls[first]]>>
        /\ pc' = IF first = 0 THEN "returned" ELSE "ping"

\* main(): --print-config prints and returns 0; otherwise the coordinator is
\* built and run_once is entered, directly or through run_forever
main ==
    /\ pc = "main"
    /\ IF args.print_config
       THEN /\ pc' = "exited"
            /\ exit_code' = 0
            /\ UNCHANGED <<sequence, i, cycle_success, attempt, cycle, probes,
                           cycle_log, trace>>
       ELSE /\ EnterRunOnce
            /\ UNCHANGED exit_code
    /\ UNCHANGED <<args, environ, config, world, result, counts,
                   last_alert_by_url, hist, get_calls, sleeper_calls,
                   attempt_log, session_log, probe, failure_alerts,
                   latency_alerts, last_delivery, interval_sleeps>>

\* PingerManager.ping_url: one iteration of its loop, the backoff sleep
\* included; a range that is exhausted leads to the statement after the loop
ping_url ==
    /\ pc = "ping"
    /\ IF attempt > max_attempts
       THEN /\ result' = UnknownError
            /\ pc' = "process"
            /\ UNCHANGED <<attempt, get_calls, attempt_log, session_log,
                           sleeper_calls>>
       ELSE \E raises \in world.raises, status_code \in world.statuses,
               latency_ms \in world.latencies :
            LET r == _attempt_request(raises, status_code, latency_ms)
            IN  /\ get_calls' = get_calls + 1
                /\ attempt_log' = Append(attempt_log, r)
                /\ session_log' = Append(session_log,
                                         [raised |-> raises,
                                          status_code |->
                                              IF raises THEN NoneStatus
                                              ELSE status_code])
                /\ IF should_retry(attempt, r)
                   THEN /\ sleeper_calls' = Append(sleeper_calls, backoff_seconds)
                        /\ IF attempt + 1 <= max_attempts
                           THEN /\ attempt' = attempt + 1
                                /\ result' = r
                                /\ pc' = "ping"
                           ELSE /\ attempt' = attempt
                                /\ result' = UnknownError
                                /\ pc' = "process"
                   ELSE /\ result' = r
                        /\ pc' = "process"
                        /\ UNCHANGED <<attempt, sleeper_calls>>
    /\ probe' = NoProbe
    /\ UNCHANGED <<args, environ, config, world, exit_code, sequence, i,
                   cycle_success, counts, last_alert_by_url, cycle, probes,
                   hist, cycle_log, failure_alerts, latency_alerts,
                   last_delivery, trace, interval_sleeps>>

\* mutant: the latest probe alone decides the result of the cycle
fold_cycle_success_last(success, o) == ~o.is_failure

\* mutant: --once always exits 0
once_exit_code_zero(success) == 0

\* run_once: "if outcome.is_failure: cycle_success = False"
fold_cycle_success(success, o) == IF o.is_failure THEN FALSE ELSE success

\* main(): "return 0 if coordinator.run_once() else 1"
once_exit_code(success) == IF success THEN 0 ELSE 1

Verdict(o) == IF o.is_failure THEN "failure"
              ELSE IF o.is_warning_only THEN "warning" ELSE "success"

\* KeepAliveCoordinator.run_once: the rest of one loop iteration once
\* ping_url has returned, up to the next ping_url call or the return
run_once ==
    /\ pc = "process"
    /\ \E now_epoch \in world.times, send_ok1 \in BOOLEAN, send_ok2 \in BOOLEAN :
        LET url == sequence[i]
            o == evaluate(url, result)
            c == record(counts, url, o.is_failure)
            failure_count == c[url]
            fa == _handle_failure_alert(url, result, o, failure_count, send_ok1)
            la == _handle_latency_alert(url, result, now_epoch, send_ok2)
            h == Append(Get(hist, url, <<>>), o.is_failure)
        IN  /\ cycle_success' = fold_cycle_success(cycle_success, o)
            /\ counts' = c
            /\ last_alert_by_url' = la.last
            /\ probe' = [valid |-> TRUE, url |-> url, result |-> result,
                         outcome |-> o, failure_count |-> failure_count,
                         now |-> now_epoch, calls |-> fa \o la.calls]
            /\ hist' = Put(hist, url, h)
            /\ cycle_log' = Append(cycle_log, Verdict(o))
            /\ failure_alerts' =
                 IF fa = <<>> THEN failure_alerts
                 ELSE Append(failure_alerts,
                             [url |-> url, cycle |-> cycle, nth |-> Len(h)])
            /\ latency_alerts' =
                 IF la.calls = <<>> THEN latency_alerts
                 ELSE Append(latency_alerts,
                             [url |-> url, cycle |-> cycle, at |-> now_epoch])
            /\ last_delivery' =
                 LET calls == fa \o la.calls
                     said == {<<calls[k].message.kind, url>> : k \in 1..Len(calls)}
                 IN  [x \in DOMAIN last_delivery \cup said |->
                        IF x \in said
                        THEN calls[CHOOSE k \in 1..Len(calls) :
                                      calls[k].message.kind = x[1]].delivery
                        ELSE last_delivery[x]]
    /\ get_calls' = 0
    /\ sleeper_calls' = <<>>
    /\ attempt_log' = <<>>
    /\ session_log' = <<>>
    /\ LET next == for_next(sequence, i)
           done == Append(trace, [event |-> "done", url |-> sequence[i]])
       IN  IF next # 0
           THEN /\ i' = next
                /\ attempt' = 1
                /\ probes' = probes + 1
                /\ trace' = Append(done, [event |-> "ping_url", url |-> sequence[next]])
                /\ pc' = "ping"
           ELSE /\ pc' = "returned"
                /\ trace' = done
                /\ UNCHANGED <<i, attempt, probes>>
    /\ UNCHANGED <<args, environ, config, world, exit_code, sequence, result,
                   cycle, interval_sleeps>>

\* main(): with --once, run_once's value decides the exit code
main_once ==
    /\ pc = "returned"
    /\ args.once
    /\ pc' = "exited"
    /\ exit_code' = once_exit_code(cycle_success)
    /\ UNCHANGED <<args, environ, config, world, sequence, i, cycle_success,
                   attempt, result, counts, last_alert_by_url, cycle, probes,
                   hist, cycle_log, get_calls, sleeper_calls, attempt_log,
                   session_log, probe, failure_alerts, latency_alerts,
                   last_delivery, trace, interval_sleeps>>

\* KeepAliveCoordinator.run_forever: run_once has returned, the interval
\* sleep starts
run_forever_sleep ==
    /\ pc = "returned"
    /\ ~args.once
    /\ pc' = "sleeping"
    /\ interval_sleeps' = interval_sleeps + 1
    /\ UNCHANGED <<args, environ, config, world, exit_code, sequence, i,
                   cycle_success, attempt, result, counts, last_alert_by_url,
                   cycle, probes, hist, cycle_log, get_calls, sleeper_calls,
                   attempt_log, session_log, probe, failure_alerts,
                   latency_alerts, last_delivery, trace>>

\* mutant: the loop goes on only after a cycle without hard failure
while_last_cycle_succeeded == cycle_success

\* run_forever: the condition of "while True:"
while_true == TRUE

\* KeepAliveCoordinator.run_forever: the interval sleep returns and the loop
\* calls run_once again; were the loop left, main() would return 0
run_forever ==
    /\ pc = "sleeping"
    /\ IF while_true
       THEN /\ cycle < MaxCycles
            /\ probes + Len(sequence) <= MaxProbes
            /\ EnterRunOnce
            /\ UNCHANGED exit_code
       ELSE /\ pc' = "exited"
            /\ exit_code' = 0
            /\ UNCHANGED <<sequence, i, cycle_success, attempt, cycle, probes,
                           cycle_log, trace>>
    /\ UNCHANGED <<args, environ, config, world, result, counts,
                   last_alert_by_url, hist, get_calls, sleeper_calls,
                   attempt_log, session_log, probe, failure_alerts,
                   latency_alerts, last_delivery, interval_sleeps>>

\* main(): "except KeyboardInterrupt: return 0" encloses run_forever() only
interrupt_caught == pc \in {"ping", "process", "returned", "sleeping"} /\ ~args.once

\* exit status of the interpreter after an uncaught KeyboardInterrupt: 1, or
\* death by SIGINT (130 in a shell) from Python 3.8 on
uncaught_exit_codes == {1, 130}

\* the operator's interrupt: KeyboardInterrupt is raised in whatever the
\* process is doing; main() returns 0 where it catches it
KeyboardInterrupt ==
    /\ pc \in {"main", "ping", "process", "returned", "sleeping"}
    /\ world.interrupts
    /\ pc' = "interrupted"
    /\ exit_code' \in (IF interrupt_caught THEN {0} ELSE uncaught_exit_codes)
    /\ UNCHANGED <<args, environ, config, world, sequence, i, cycle_success,
                   attempt, result, counts, last_alert_by_url, cycle, probes,
                   hist, cycle_log, get_calls, sleeper_calls, attempt_log,
                   session_log, probe, failure_alerts, latency_alerts,
                   last_delivery, trace, interval_sleeps>>

Next ==
    \/ main \/ ping_url \/ run_once \/ main_once \/ run_forever_sleep
    \/ run_forever \/ KeyboardInterrupt

Spec == Init /\ [][Next]_vars

\* ----------------------------------------------------------------- claims
\* failure-alert dispatches for url u, oldest first
FailureAlertsFor(u) == SelectSeq(failure_alerts, LAMBDA a : a.url = u)
\* latency-alert dispatches for url u, oldest first
LatencyAlertsFor(u) == SelectSeq(latency_alerts, LAMBDA a : a.url = u)
Occurrences(u, urls) == Cardinality({k \in 1..Len(urls) : urls[k] = u})
AlwaysFailed(u) == \A k \in 1..Len(hist[u]) : hist[u][k]
\* number of TRUE entries at the end of a sequence of booleans
RECURSIVE TrailingFailures(_)
TrailingFailures(h) ==
    IF h = <<>> \/ ~h[Len(h)] THEN 0
    ELSE 1 + TrailingFailures(SubSeq(h, 1, Len(h) - 1))
HasCall(kind) == \E k \in 1..Len(probe.calls) : probe.calls[k].message.kind = kind

\* C1: for a threshold of at least 1, a URL that occurs once in the sequence and has been a hard failure in
\* every cycle so far has had exactly one failure alert dispatched, in cycle
\* failure_threshold, once that many cycles have probed it, and none before.
C1_OneAlertAtThreshold ==
    \A u \in DOMAIN hist :
        (/\ config.alert_consecutive_failures >= 1
         /\ Occurrences(u, sequence) = 1 /\ AlwaysFailed(u)) =>
            IF Len(hist[u]) >= config.alert_consecutive_failures
            THEN FailureAlertsFor(u) =
                    <<[url |-> u, cycle |-> config.alert_consecutive_failures,
                       nth |-> config.alert_consecutive_failures]>>
            ELSE FailureAlertsFor(u) = <<>>

\* C1 witness: threshold 3, four failed cycles of one URL, one alert
C1_Witness ==
    /\ config.alert_consecutive_failures = 3
    /\ sequence = <<OtherUrl>>
    /\ OtherUrl \in DOMAIN hist
    /\ hist[OtherUrl] = <<TRUE, TRUE, TRUE, TRUE>>
    /\ Len(FailureAlertsFor(OtherUrl)) = 1
    /\ cycle = 4

\* C2: the loop body dispatches a failure alert exactly when the probe is a
\* hard failure that brings the URL's streak to failure_threshold; so any
\* two successive failure alerts of a URL are separated by a non-failure
\* followed by failure_threshold consecutive failures (for a configured
\* threshold of at least 1).
C2_EdgeTriggered ==
    config.alert_consecutive_failures >= 1 =>
    /\ probe.valid =>
         (HasCall("failure") <=>
            /\ probe.outcome.is_failure
            /\ TrailingFailures(hist[probe.url]) = config.alert_consecutive_failures)
    /\ \A u \in DOMAIN hist :
         LET alerts == FailureAlertsFor(u)
             T == config.alert_consecutive_failures
         IN  \A k \in 1..Len(alerts) :
                LET n == alerts[k].nth
                    m == IF k = 1 THEN 0 ELSE alerts[k - 1].nth
                IN  /\ n - T >= m
                    /\ \A j \in (n - T + 1)..n : hist[u][j]
                    /\ k > 1 => (n - T > m /\ ~hist[u][n - T])

\* C2 witness: two failure alerts of one URL, a non-failure in between
C2_Witness ==
    \E u \in DOMAIN hist :
        /\ Len(FailureAlertsFor(u)) = 2
        /\ probe.valid /\ probe.url = u /\ HasCall("failure")

\* the attempts ping_url may make under the configured retries
AttemptsAllowed == IF config.retries + 1 >= 1 THEN config.retries + 1 ELSE 1
Retryable(r) == r.error # None \/ (r.status # NoneStatus /\ r.status >= 500)
ServerError(r) == r.error = None /\ r.status >= 500 /\ r.status <= 599

\* C3: for retries >= 0 and backoff_seconds >= 0, when ping_url returns
\* after every attempt was answered with a 5xx status, it has made
\* retries + 1 requests and called the sleeper retries
\* times, each time with backoff_seconds, the last attempt not being
\* followed by a sleep.
C3_PersistentServerError ==
    (/\ pc = "process"
     /\ config.retries >= 0 /\ config.backoff_seconds >= 0
     /\ \A k \in 1..Len(attempt_log) : ServerError(attempt_log[k])) =>
        /\ get_calls = config.retries + 1
        /\ Len(attempt_log) = get_calls
        /\ sleeper_calls = [k \in 1..config.retries |-> config.backoff_seconds]

\* C3 witness: retries 3, backoff 2, four 5xx answers
C3_Witness ==
    /\ pc = "process"
    /\ config.retries = 3 /\ config.backoff_seconds = 2
    /\ Len(attempt_log) = 4
    /\ \A k \in 1..4 : attempt_log[k].status \in {500, 503}
    /\ sleeper_calls = <<2, 2, 2>>

\* C4: inside ping_url every attempt but the latest was retryable (transport
\* error or status >= 500), was made below the allowed number of attempts
\* and was followed by one sleep; ping_url returns as soon as an attempt is
\* not retryable or is the last one allowed, and it returns that attempt's
\* result without sleeping.  Hence an attempt answered 2xx, 3xx or 4xx is
\* never followed by an attempt or a sleep.
C4_RetryDecision ==
    pc \in {"ping", "process"} =>
        LET n == Len(attempt_log) IN
        /\ get_calls = n
        /\ \A k \in 1..(n - 1) : Retryable(attempt_log[k]) /\ k < AttemptsAllowed
        /\ pc = "ping" =>
              /\ attempt = n + 1
              /\ n < AttemptsAllowed
              /\ Len(sleeper_calls) = n
              /\ n >= 1 => Retryable(attempt_log[n])
        /\ pc = "process" =>
              /\ n >= 1
              /\ result = attempt_log[n]
              /\ Len(sleeper_calls) = n - 1
              /\ ~Retryable(attempt_log[n]) \/ n = AttemptsAllowed
        /\ \A k \in 1..n :
              (attempt_log[k].error = None /\ attempt_log[k].status < 500)
                  => (k = n /\ pc = "process" /\ Len(sleeper_calls) = n - 1)

\* C4 witness: three retries allowed, a 5xx and a transport error are
\* retried, then a 403 is returned at once
C4_Witness ==
    /\ pc = "process"
    /\ config.retries = 3
    /\ Len(attempt_log) = 3
    /\ attempt_log[1].status = 500
    /\ attempt_log[2].error # None
    /\ result.status = 403
    /\ Len(sleeper_calls) = 2

\* C5: for every URL the stored streak is the number of consecutive
\* is_failure = true calls of record since the latest is_failure = false
\* call, and that is the value record returned.
C5_StreakCountsConsecutiveFailures ==
    /\ DOMAIN counts = DOMAIN hist
    /\ \A u \in DOMAIN hist : counts[u] = TrailingFailures(hist[u])
    /\ probe.valid => probe.failure_count = TrailingFailures(hist[probe.url])

\* C5 witness: (true, true, false, true) has given (1, 2, 0, 1)
C5_Witness ==
    \E u \in DOMAIN hist :
        /\ hist[u] = <<TRUE, TRUE, FALSE, TRUE>>
        /\ counts[u] = 1
        /\ probe.valid /\ probe.url = u /\ probe.failure_count = 1

\* the URL's path, its query string and trailing slashes set aside, is p
PathIs(url, p) ==
    /\ Len(url) >= Len(p)
    /\ SubSeq(url, 1, Len(p)) = p
    /\ \E n \in Len(p)..Len(url) :
          /\ \A j \in (Len(p) + 1)..n : url[j] = "/"
          /\ n = Len(url) \/ url[n + 1] = "?"
KnownHealthPath(url) ==
    PathIs(url, <<"/", "health">>) \/ PathIs(url, <<"/", "api", "/", "health">>)
Qualifies(latency_ms) == latency_ms >= config.alert_latency_ms

\* C6: a latency alert is dispatched for a sample exactly when its latency is
\* at least the threshold and either no latency alert was dispatched for the
\* URL before or the clock reading is at least 3600 s past the latest one; the
\* limiter's stamp of a URL is the time of its latest latency alert, so it
\* moves only when an alert is raised; successive latency alerts of a URL
\* are at least 3600 s apart.
C6_LatencyCooldown ==
    /\ probe.valid =>
         LET all == LatencyAlertsFor(probe.url)
             alerted == HasCall("latency")
             before == IF alerted THEN SubSeq(all, 1, Len(all) - 1) ELSE all
         IN  /\ alerted => all # <<>> /\ all[Len(all)].at = probe.now
             /\ alerted <=>
                  /\ Qualifies(probe.result.latency_ms)
                  /\ \/ before = <<>>
                     \/ probe.now - before[Len(before)].at >= 3600
    /\ \A u \in DOMAIN hist :
         LET all == LatencyAlertsFor(u)
         IN  /\ u \in DOMAIN last_alert_by_url <=> all # <<>>
             /\ all # <<>> => last_alert_by_url[u] = all[Len(all)].at
             /\ \A k \in 2..Len(all) : all[k].at - all[k - 1].at >= 3600
    /\ DOMAIN last_alert_by_url \subseteq DOMAIN hist

\* C6 witness: alert at t = 0, a qualifying sample at t = 3599 not alerted,
\* seen from the state where the stamp is still 0
C6_Witness ==
    /\ probe.valid
    /\ Qualifies(probe.result.latency_ms)
    /\ probe.now = 3599
    /\ ~HasCall("latency")
    /\ last_alert_by_url[probe.url] = 0

\* C6 second case: alerts at t = 0 and at t = 3600 for one URL
C6_WitnessSecondAlert ==
    /\ probe.valid
    /\ HasCall("latency")
    /\ LET all == LatencyAlertsFor(probe.url)
       IN  Len(all) = 2 /\ all[1].at = 0 /\ all[2].at = 3600

\* C7: the outcome of a probe is success when result.ok; else warning-only
\* when the status is 404 and the URL's path is /health or /api/health; else
\* failure.  is_failure and is_warning_only are never both true.
C7_Classification ==
    probe.valid =>
        /\ probe.outcome =
             IF probe.result.ok
             THEN [is_failure |-> FALSE, is_warning_only |-> FALSE]
             ELSE IF probe.result.status = 404 /\ KnownHealthPath(probe.url)
             THEN [is_failure |-> FALSE, is_warning_only |-> TRUE]
             ELSE [is_failure |-> TRUE, is_warning_only |-> FALSE]
        /\ ~(probe.outcome.is_failure /\ probe.outcome.is_warning_only)

\* C7 witness: 404 on /health/?... is a warning
C7_Witness ==
    /\ probe.valid
    /\ probe.url = <<"/", "health", "/", "?">>
    /\ probe.result.status = 404
    /\ probe.outcome.is_warning_only

\* C7 second case: 404 on another path is a failure
C7_WitnessOtherPath ==
    /\ probe.valid
    /\ probe.url = <<"/", "health", "/", "api">>
    /\ probe.result.status = 404
    /\ probe.outcome.is_failure

\* C8: a loop iteration whose probe answered 404 on a known health path
\* dispatches no failure alert, leaves the URL's streak at 0 and leaves
\* cycle_success as it was.
C8_WarningIsNoFailure ==
    [][(/\ pc = "process"
        /\ ~result.ok /\ result.status = 404
        /\ KnownHealthPath(sequence[i])) =>
            /\ probe'.outcome = [is_failure |-> FALSE, is_warning_only |-> TRUE]
            /\ failure_alerts' = failure_alerts
            /\ \A k \in 1..Len(probe'.calls) : probe'.calls[k].message.kind # "failure"
            /\ counts'[sequence[i]] = 0
            /\ probe'.failure_count = 0
            /\ cycle_success' = cycle_success]_vars

\* C8 witness: threshold 2, a failure, then a warning that resets the streak
\* of 1, in a cycle that is still successful
C8_Witness ==
    /\ probe.valid /\ probe.outcome.is_warning_only
    /\ config.alert_consecutive_failures = 2
    /\ hist[probe.url] = <<TRUE, FALSE>>
    /\ counts[probe.url] = 0
    /\ cycle_success

\* C9: run_once returns false exactly when a probe of that cycle was
\* classified as a hard failure; every URL of the sequence was probed.
C9_CycleResult ==
    pc = "returned" =>
        /\ Len(cycle_log) = Len(sequence)
        /\ ~cycle_success <=> \E k \in 1..Len(cycle_log) : cycle_log[k] = "failure"

\* C9 witness: a cycle of a success and a warning returns true although an
\* earlier cycle failed
C9_Witness ==
    /\ pc = "returned"
    /\ cycle = 2
    /\ cycle_log = <<"warning", "success">>
    /\ cycle_success
    /\ \E u \in DOMAIN hist : hist[u][1]

\* C9 second case: a failure followed by a success returns false
C9_WitnessFailureFirst ==
    /\ pc = "returned"
    /\ cycle_log = <<"failure", "success">>
    /\ ~cycle_success

\* what the claim says of a run started with --once: one cycle, every entry
\* of the sequence probed once, no interval sleep, and the exit code 0 when
\* no probe of the cycle was a hard failure, 1 otherwise
OnceRunsOneCycle ==
    /\ pc # "sleeping"
    /\ cycle <= 1
    /\ pc = "exited" =>
          /\ cycle = 1
          /\ sequence = build(config.target_urls, config.post_load_urls)
          /\ probes = Len(sequence)
          /\ Len(cycle_log) = Len(sequence)
          /\ \A u \in DOMAIN hist : Len(hist[u]) = Occurrences(u, sequence)
          /\ exit_code = IF \E k \in 1..Len(cycle_log) : cycle_log[k] = "failure"
                         THEN 1 ELSE 0

\* C10 as stated: with --once the process runs exactly one cycle and exits
\* 0 or 1 by its hard failures.  (Refuted by --once --print-config.)
C10_OnceAlwaysRunsOneCycle == args.once => OnceRunsOneCycle

\* C10 amended: with --once and without --print-config the process runs
\* exactly one cycle and exits 0 or 1 by its hard failures; with
\* --print-config it exits 0 without running a cycle, --once or not.
C10_OnceWithoutPrintConfig ==
    /\ (args.once /\ ~args.print_config) => OnceRunsOneCycle
    /\ (args.print_config /\ pc = "exited") =>
          (cycle = 0 /\ probes = 0 /\ exit_code = 0)

\* C10 witness: --once over three URLs, one of them failing, exit code 1
C10_Witness ==
    /\ args.once /\ ~args.print_config
    /\ pc = "exited"
    /\ Len(sequence) = 3
    /\ probes = 3
    /\ cycle_log[2] = "failure"
    /\ exit_code = 1

\* the first n events of a cycle over urls: each URL's ping_url call and then
\* the end of its loop body, in list order
VisitsInOrder(urls, n) ==
    [k \in 1..n |-> [event |-> IF k % 2 = 1 THEN "ping_url" ELSE "done",
                     url |-> urls[(k + 1) \div 2]]]
Delivery(kind) ==
    {probe.calls[k].delivery : k \in {j \in 1..Len(probe.calls) :
                                          probe.calls[j].message.kind = kind}}

\* C11: within a cycle the URLs of the sequence are taken one at a time in
\* list order, the loop body of each finished before ping_url is called for
\* the next, and whatever the probes answered and the dispatches did, a
\* cycle that has returned has visited every URL exactly once.
C11_EveryUrlVisitedInOrder ==
    /\ Len(trace) <= 2 * Len(sequence)
    /\ trace = VisitsInOrder(sequence, Len(trace))
    /\ pc \in {"ping", "process"} =>
          /\ Len(trace) = 2 * i - 1
          /\ Len(cycle_log) = i - 1
    /\ (pc \in {"returned", "sleeping"} \/ (pc = "exited" /\ cycle > 0)) =>
          /\ trace = VisitsInOrder(sequence, 2 * Len(sequence))
          /\ Len(cycle_log) = Len(sequence)

\* C11 witness: the first URL was a hard failure whose alert could not be
\* delivered, and ping_url has been called for the second URL
C11_Witness ==
    /\ pc = "ping"
    /\ probe.valid /\ probe.outcome.is_failure
    /\ Delivery("failure") = {"failed"}
    /\ Len(sequence) = 3
    /\ trace = <<[event |-> "ping_url", url |-> sequence[1]],
                 [event |-> "done", url |-> sequence[1]],
                 [event |-> "ping_url", url |-> sequence[2]]>>

\* C11 second case: a cycle of three URLs returned after a transport error
\* on the first and a failure on the second
C11_WitnessWholeCycle ==
    /\ pc = "returned"
    /\ Len(sequence) = 3 /\ Len(trace) = 6
    /\ cycle_log = <<"failure", "failure", "success">>

\* C12: dispatch calls send_alert exactly when both the bot token and the
\* chat id are set; a loop body in which send_alert returned false changes
\* cycle_success by the probe's outcome alone, raises nothing and goes on to
\* the next URL, or returns from run_once when there is none.
C12_DispatchFailureIsNotFatal ==
    [][pc = "process" =>
        /\ \A k \in 1..Len(probe'.calls) :
              probe'.calls[k].delivery = "skipped" <=>
                  \/ config.telegram_bot_token \in {None, ""}
                  \/ config.telegram_chat_id \in {None, ""}
        /\ (pc' # "interrupted" /\
            \E k \in 1..Len(probe'.calls) : probe'.calls[k].delivery = "failed") =>
              /\ cycle_success' = (cycle_success /\ ~probe'.outcome.is_failure)
              /\ exit_code' = exit_code
              /\ IF i < Len(sequence)
                 THEN pc' = "ping" /\ i' = i + 1
                 ELSE pc' = "returned"]_vars

\* C12 witness: a slow success whose latency alert send_alert could not
\* deliver; the cycle is still successful and the next URL is being probed
C12_Witness ==
    /\ pc = "ping" /\ i = 2
    /\ probe.valid /\ probe.result.ok
    /\ Delivery("latency") = {"failed"}
    /\ cycle_success

\* C12 second case: a token without a chat id, the alert is not sent
C12_WitnessUnconfigured ==
    /\ probe.valid
    /\ config.telegram_bot_token = "token" /\ config.telegram_chat_id = None
    /\ Delivery("latency") = {"skipped"}

\* C12 third case: after a failed delivery the coordinator sleeps and runs
\* another cycle
C12_WitnessLoopContinues ==
    /\ cycle = 2 /\ pc = "ping" /\ interval_sleeps = 1
    /\ probe.valid /\ Delivery("failure") = {"failed"}

\* latency alerts of the probed URL dispatched before the latest probe
EarlierLatencyAlerts ==
    LET all == LatencyAlertsFor(probe.url)
    IN  IF HasCall("latency") THEN SubSeq(all, 1, Len(all) - 1) ELSE all
CooldownOver ==
    \/ EarlierLatencyAlerts = <<>>
    \/ probe.now - EarlierLatencyAlerts[Len(EarlierLatencyAlerts)].at >= 3600
Kinds == [k \in 1..Len(probe.calls) |-> probe.calls[k].message.kind]

\* C13: for every probe, whatever its outcome, a latency alert is dispatched
\* exactly when its latency is at least the threshold and the cooldown of the
\* URL allows it, and the alert carries that probe's latency; a hard failure
\* that brings the streak to the threshold with such a latency dispatches
\* the failure alert and then the latency alert, both for the probed URL
\* (for a configured failure threshold of at least 1).
C13_LatencyAlertWhateverTheOutcome ==
    (probe.valid /\ config.alert_consecutive_failures >= 1) =>
        LET slow == Qualifies(probe.result.latency_ms) /\ CooldownOver
            failed == /\ probe.outcome.is_failure
                      /\ probe.failure_count = config.alert_consecutive_failures
        IN  /\ Kinds = (IF failed THEN <<"failure">> ELSE <<>>)
                           \o (IF slow THEN <<"latency">> ELSE <<>>)
            /\ \A k \in 1..Len(probe.calls) :
                  /\ probe.calls[k].message.url = probe.url
                  /\ probe.calls[k].message.kind = "latency" =>
                        probe.calls[k].message.value = probe.result.latency_ms

\* C13 witness: a transport error that is the second failure in a row, with
\* threshold 2 and a latency of 4000 ms: failure alert, then latency alert
C13_Witness ==
    /\ probe.valid
    /\ probe.result.error # None /\ probe.result.latency_ms = 4000
    /\ config.alert_consecutive_failures = 2
    /\ Kinds = <<"failure", "latency">>
    /\ failure_alerts[Len(failure_alerts)].cycle = cycle
    /\ latency_alerts[Len(latency_alerts)].cycle = cycle

\* C13 second case: a slow success alerts
C13_WitnessSlowSuccess ==
    /\ probe.valid /\ probe.result.ok
    /\ Kinds = <<"latency">>

\* C14: the list run_once iterates over is post_load_urls when target_urls
\* is empty, and otherwise the first target, then every post-load URL in
\* order, then the other targets in order; it has as many entries as both
\* lists together and every URL occurs in it as often as in both lists.
C14_SequenceOrder ==
    cycle > 0 =>
        LET t == config.target_urls
            p == config.post_load_urls
        IN  /\ Len(sequence) = Len(t) + Len(p)
            /\ \A k \in 1..Len(sequence) :
                  sequence[k] = IF t = <<>> THEN p[k]
                                ELSE IF k = 1 THEN t[1]
                                ELSE IF k <= 1 + Len(p) THEN p[k - 1]
                                ELSE t[k - Len(p)]
            /\ \A u \in {HomeUrl, HealthUrl, DeepUrl, OtherUrl} :
                  Occurrences(u, sequence) = Occurrences(u, t) + Occurrences(u, p)
            /\ (t = <<HomeUrl, HealthUrl>> /\ p = <<DeepUrl>>) =>
                  sequence = <<HomeUrl, DeepUrl, HealthUrl>>

\* C14 witness: build([home, health], [deep]) = [home, deep, health]
C14_Witness ==
    /\ cycle = 1
    /\ config.target_urls = <<HomeUrl, HealthUrl>>
    /\ config.post_load_urls = <<DeepUrl>>
    /\ sequence = <<HomeUrl, DeepUrl, HealthUrl>>

\* C14 second case: no targets, the post-load list as it is, a URL twice
C14_WitnessNoTargets ==
    /\ cycle = 1
    /\ config.target_urls = <<>>
    /\ sequence = <<DeepUrl, DeepUrl>>

\* C14 third case: three targets around two post-load URLs
C14_WitnessLongLists ==
    /\ cycle = 1
    /\ Len(config.target_urls) = 3 /\ Len(config.post_load_urls) = 2
    /\ sequence = <<HealthUrl, DeepUrl, HomeUrl, HomeUrl, HealthUrl>>

\* C15: a process that an interrupt ended after its coordinator had started
\* a cycle (during a probe, a backoff, the loop body or the interval sleep)
\* has exit code 0, with --once as well as without.
C15_InterruptExitsZero ==
    (pc = "interrupted" /\ cycle > 0) => exit_code = 0

\* what the code does give: without --once, an interrupt that arrives once
\* run_forever has been entered ends the process with exit code 0
InterruptInRunForeverExitsZero ==
    (pc = "interrupted" /\ cycle > 0 /\ ~args.once) => exit_code = 0

\* an interrupt during the interval sleep, exit code 0
InterruptWhileSleeping ==
    /\ pc = "interrupted" /\ exit_code = 0
    /\ interval_sleeps = cycle /\ cycle = 2

\* decimal writing of a natural number
RECURSIVE Decimal(_)
Decimal(n) ==
    IF n < 10 THEN <<DigitChars[n + 1]>>
    ELSE Decimal(n \div 10) \o <<DigitChars[(n % 10) + 1]>>
Numerals == {"0", "1", "2", "3", "4", "5", "6", "7", "8", "9"}

\* text writes the integer n: blanks, an optional sign, the decimal digits of
\* |n| after any number of zeros, single underscores allowed between two
\* digits, blanks
Writes(text, n) ==
    \E lo \in 1..Len(text), hi \in 1..Len(text) :
        /\ lo <= hi
        /\ \A k \in 1..(lo - 1) : text[k] = " "
        /\ \A k \in (hi + 1)..Len(text) : text[k] = " "
        /\ LET start == IF text[lo] \in {"+", "-"} THEN lo + 1 ELSE lo
               body == SubSeq(text, start, hi)
               digits == SelectSeq(body, LAMBDA c : c # "_")
               size == IF n < 0 THEN 0 - n ELSE n
           IN  /\ start <= hi
               /\ text[lo] = "-" => n <= 0
               /\ text[lo] # "-" => n >= 0
               /\ \A k \in 1..Len(body) :
                     body[k] = "_" =>
                         /\ 1 < k /\ k < Len(body)
                         /\ body[k - 1] \in Numerals /\ body[k + 1] \in Numerals
               /\ \A k \in 1..Len(digits) : digits[k] \in Numerals
               /\ \E z \in 0..(Len(digits) - 1) :
                     /\ \A k \in 1..z : digits[k] = "0"
                     /\ SubSeq(digits, z + 1, Len(digits)) = Decimal(size)

\* the naturals a value of at most MaxRawLen characters of IntChars can write
WritableValues ==
    {n \in 0..(10^MaxRawLen - 1) :
        \A k \in 1..Len(Decimal(n)) : Decimal(n)[k] \in IntChars}

\* v is what an integer setting must be loaded as: the integer its value
\* writes if that is at least minimum, the default otherwise
IntSetting(key, default, minimum, v) ==
    IF key \in DOMAIN environ.vars /\ Writes(environ.vars[key], v) /\ v >= minimum
    THEN TRUE
    ELSE /\ v = default
         /\ key \in DOMAIN environ.vars =>
               \A n \in WritableValues :
                   n >= minimum => ~Writes(environ.vars[key], n)

RECURSIVE Flatten(_)
Flatten(items) == IF items = <<>> THEN <<>> ELSE Head(items) \o Flatten(Tail(items))
Visible(text) == SelectSeq(text, LAMBDA c : c \notin {" ", ","})

\* v is what a URL list must be loaded as: the default when the value is
\* unset or holds blanks and commas only, else its non-blank items in order
ListSetting(key, default, v) ==
    IF key \notin DOMAIN environ.vars \/ Visible(environ.vars[key]) = <<>>
    THEN v = default
    ELSE /\ v # <<>>
         /\ \A j \in 1..Len(v) :
               /\ Visible(v[j]) # <<>>
               /\ \A k \in 1..Len(v[j]) : v[j][k] # ","
               /\ v[j][1] # " " /\ v[j][Len(v[j])] # " "
         /\ Visible(Flatten(v)) = Visible(environ.vars[key])

\* C16: the configuration loaded from an environment has, for each integer
\* setting, the integer the value writes if it is at least the setting's
\* minimum and the default otherwise, so every setting is within its
\* minimum; a URL list that is unset or has no non-blank item is the default
\* list.
C16_LoadedConfigWithinMinimums ==
    environ.loaded =>
        /\ IntSetting("INTERVAL_SECONDS", 600, 1, config.interval_seconds)
        /\ IntSetting("TIMEOUT_SECONDS", 15, 1, config.timeout_seconds)
        /\ IntSetting("RETRIES", 2, 0, config.retries)
        /\ IntSetting("BACKOFF_SECONDS", 3, 0, config.backoff_seconds)
        /\ IntSetting("ALERT_CONSECUTIVE_FAILURES", 3, 1,
                      config.alert_consecutive_failures)
        /\ IntSetting("ALERT_LATENCY_MS", 4000, 0, config.alert_latency_ms)
        /\ config.interval_seconds >= 1 /\ config.timeout_seconds >= 1
        /\ config.retries >= 0 /\ config.backoff_seconds >= 0
        /\ config.alert_consecutive_failures >= 1 /\ config.alert_latency_ms >= 0
        /\ ListSetting("TARGET_URLS", <<HomeUrl, HealthUrl>>, config.target_urls)
        /\ ListSetting("POST_LOAD_URLS", <<DeepUrl>>, config.post_load_urls)

\* C16 witness: ALERT_CONSECUTIVE_FAILURES=0 is below the minimum, the
\* default 3 is used and the cycle has run with it
C16_Witness ==
    /\ environ.loaded
    /\ "ALERT_CONSECUTIVE_FAILURES" \in DOMAIN environ.vars
    /\ environ.vars["ALERT_CONSECUTIVE_FAILURES"] = <<"0">>
    /\ config.alert_consecutive_failures = 3
    /\ pc = "exited" /\ cycle = 1

\* C16 further cases: " 11", "1_0" and "-0" are integers, "1 1" is none
C16_WitnessParsed ==
    /\ environ.loaded /\ pc = "exited"
    /\ "RETRIES" \in DOMAIN environ.vars
    /\ environ.vars["RETRIES"] = <<" ", "1", "1">> /\ config.retries = 11
C16_WitnessUnderscore ==
    /\ environ.loaded /\ pc = "exited"
    /\ "RETRIES" \in DOMAIN environ.vars
    /\ environ.vars["RETRIES"] = <<"1", "_", "0">> /\ config.retries = 10
C16_WitnessMinusZero ==
    /\ environ.loaded /\ pc = "exited"
    /\ "RETRIES" \in DOMAIN environ.vars
    /\ environ.vars["RETRIES"] = <<"-", "0">> /\ config.retries = 0
C16_WitnessNotAnInteger ==
    /\ environ.loaded /\ pc = "exited"
    /\ "INTERVAL_SECONDS" \in DOMAIN environ.vars
    /\ environ.vars["INTERVAL_SECONDS"] = <<"1", " ", "1">>
    /\ config.interval_seconds = 600
C16_WitnessList ==
    /\ environ.loaded /\ pc = "exited"
    /\ "TARGET_URLS" \in DOMAIN environ.vars
    /\ environ.vars["TARGET_URLS"] = <<"/", ",", " ", ",">>
    /\ config.target_urls = <<HomeUrl>>
C16_WitnessBlankList ==
    /\ environ.loaded /\ pc = "exited"
    /\ "POST_LOAD_URLS" \in DOMAIN environ.vars
    /\ environ.vars["POST_LOAD_URLS"] = <<" ", ",", ",">>
    /\ config.post_load_urls = <<DeepUrl>>

Continuous == ~args.once /\ ~args.print_config

\* C17: without --once the coordinator alternates cycles and interval sleeps:
\* a cycle that has returned is followed by one interval sleep, the sleep by
\* the next cycle, whatever the cycle's result; each step is possible (up to
\* the number of cycles explored); the process never exits by itself, only
\* an interrupt ends it.
C17_ContinuousLoop ==
    [][Continuous =>
        /\ pc' # "exited"
        /\ pc' # "interrupted" => exit_code' = -1
        /\ pc' \in {"ping", "process", "returned"} => interval_sleeps' = cycle' - 1
        /\ pc' = "sleeping" => interval_sleeps' = cycle'
        /\ pc = "returned" =>
              /\ ENABLED run_forever_sleep
              /\ pc' \in {"sleeping", "interrupted"}
        /\ pc = "sleeping" =>
              /\ (cycle < MaxCycles /\ probes + Len(sequence) <= MaxProbes) =>
                    ENABLED run_forever
              /\ pc' \in {"ping", "returned", "interrupted"}
              /\ pc' # "interrupted" =>
                    /\ cycle' = cycle + 1
                    /\ interval_sleeps' = interval_sleeps]_vars

\* C17 witness: the third cycle is under way after two interval sleeps,
\* the first cycle had a hard failure
C17_Witness ==
    /\ Continuous
    /\ cycle = 3 /\ pc = "ping" /\ interval_sleeps = 2
    /\ \E u \in DOMAIN hist : hist[u][1]

\* C18: ping_url has made at least one and at most max(1, retries + 1)
\* attempts when it returns, what it returns is the result of its latest
\* attempt and never the "Unknown error" result built after the loop; while
\* it has not returned, the attempts made are fewer than that maximum and
\* the next one can be made.
C18_PingUrlReturnsLastAttempt ==
    /\ pc = "process" =>
          /\ 1 <= get_calls /\ get_calls <= AttemptsAllowed
          /\ Len(attempt_log) = get_calls
          /\ result = attempt_log[get_calls]
          /\ result.error # "Unknown error"
    /\ pc = "ping" =>
          /\ get_calls < AttemptsAllowed
          /\ attempt = get_calls + 1
          /\ ENABLED ping_url

\* C18 witness: retries = -1, the single attempt is answered 500 and returned
C18_Witness ==
    /\ pc = "process"
    /\ config.retries = -1
    /\ get_calls = 1
    /\ result.status = 500

\* C18 second case: retries = 3, four transport errors, the fourth returned
C18_WitnessAllAttemptsFail ==
    /\ pc = "process"
    /\ config.retries = 3
    /\ get_calls = 4
    /\ \A k \in 1..4 : attempt_log[k].error = "boom"
    /\ result.error = "boom"

\* d2 differs from d1 at most in the entry of key u
SameButFor(d1, d2, u) ==
    /\ DOMAIN d2 \ {u} = DOMAIN d1 \ {u}
    /\ \A v \in DOMAIN d1 \ {u} : d2[v] = d1[v]

\* C19: the loop body of a probe of URL u leaves the failure streak and the
\* latency stamp of every other URL as they were, and the alerts it
\* dispatches are for u; the other steps of the program change neither.
C19_PerUrlIndependence ==
    [][IF pc = "process" /\ pc' # "interrupted"
       THEN /\ SameButFor(counts, counts', sequence[i])
            /\ SameButFor(last_alert_by_url, last_alert_by_url', sequence[i])
            /\ failure_alerts' # failure_alerts =>
                  failure_alerts'[Len(failure_alerts')].url = sequence[i]
            /\ latency_alerts' # latency_alerts =>
                  latency_alerts'[Len(latency_alerts')].url = sequence[i]
       ELSE /\ counts' = counts
            /\ last_alert_by_url' = last_alert_by_url]_vars

\* C19 witness: /health succeeds slowly at t = 3600: its streak is reset and
\* its stamp set, while the other URL keeps its streak of 1 and its stamp 0
C19_Witness ==
    /\ probe.valid /\ probe.url = HealthUrl
    /\ ~probe.outcome.is_failure /\ HasCall("latency")
    /\ hist[HealthUrl] = <<TRUE, FALSE>>
    /\ OtherUrl \in DOMAIN counts /\ counts[OtherUrl] = 1 /\ counts[HealthUrl] = 0
    /\ OtherUrl \in DOMAIN last_alert_by_url
    /\ last_alert_by_url[OtherUrl] = 0 /\ last_alert_by_url[HealthUrl] = 3600

\* C20: an attempt whose GET raised a transport error gives a result with
\* ok = false, no status and an error; below the allowed number of attempts
\* it is followed by another attempt, at that number it is what ping_url
\* returns, and the loop body classifies it as a hard failure.  In every
\* attempt's result the error is set exactly when the status is none, and ok
\* implies no error and a status.
C20_TransportErrorIsAResult ==
    /\ Len(session_log) = Len(attempt_log)
    /\ \A k \in 1..Len(attempt_log) :
          LET r == attempt_log[k]
          IN  /\ session_log[k].raised =>
                    /\ ~r.ok /\ r.status = NoneStatus /\ r.error # None
                    /\ (pc \in {"ping", "process"} /\ k < AttemptsAllowed) =>
                          (k < Len(attempt_log) \/ pc = "ping")
                    /\ (pc \in {"ping", "process"} /\ k = AttemptsAllowed) =>
                          (k = Len(attempt_log) /\ pc = "process" /\ result = r)
              /\ ~session_log[k].raised =>
                    r.status = session_log[k].status_code /\ r.error = None
              /\ r.error # None <=> r.status = NoneStatus
              /\ r.ok => (r.error = None /\ r.status # NoneStatus)
    /\ pc = "process" => result = attempt_log[Len(attempt_log)]
    /\ (probe.valid /\ probe.result.error # None) =>
          probe.outcome = [is_failure |-> TRUE, is_warning_only |-> FALSE]

\* C20 witness: with retries = 1 the GET of /health raised twice; the second
\* error result is returned
C20_Witness ==
    /\ pc = "process"
    /\ config.retries = 1
    /\ sequence[i] = HealthUrl
    /\ Len(session_log) = 2
    /\ session_log[1].raised /\ session_log[2].raised
    /\ result.error = "boom" /\ result.status = NoneStatus /\ ~result.ok

\* C20 second case: that result is a hard failure of /health
C20_WitnessHardFailure ==
    /\ probe.valid /\ probe.url = HealthUrl
    /\ probe.result.error = "boom"
    /\ probe.outcome.is_failure
    /\ ~cycle_success

\* what became of the latest dispatch of an alert of this kind for url u
LastDelivery(kind, u) == Get(last_delivery, <<kind, u>>, "none")
\* every probe of u from its latest failure alert on was a hard failure
StreakSinceLastAlert(u) ==
    LET alerts == FailureAlertsFor(u)
    IN  /\ alerts # <<>>
        /\ \A m \in alerts[Len(alerts)].nth..Len(hist[u]) : hist[u][m]

\* C21: once the failure alert of a streak was dispatched and not delivered
\* (skipped for want of credentials, or send_alert answered false), no step
\* dispatches a failure alert for that URL while the streak lasts; and a
\* further failure alert of a URL is dispatched only by a probe that brings
\* the streak to failure_threshold after a non-failure has reset it.
C21_UndeliveredAlertIsConsumed ==
    [][\A u \in DOMAIN hist :
          LET before == FailureAlertsFor(u)
              after == FailureAlertsFor(u)'
          IN  /\ (LastDelivery("failure", u) \in {"skipped", "failed"}
                    /\ StreakSinceLastAlert(u)) => after = before
              /\ (before # <<>> /\ after # before) =>
                    LET n == before[Len(before)].nth
                        m == after[Len(after)].nth
                    IN  /\ Len(after) = Len(before) + 1
                        /\ m = Len(hist'[u])
                        /\ \E r \in (n + 1)..(m - failure_threshold) :
                               /\ ~hist'[u][r]
                               /\ \A j \in (r + 1)..m : hist'[u][j]
                        /\ m - failure_threshold >= 1
                        /\ ~hist'[u][m - failure_threshold]]_vars

\* C21 witness: send_alert answered false at the threshold probe, two more
\* failures of the URL followed, and there is still that one dispatch
C21_Witness ==
    \E u \in DOMAIN hist :
        /\ LastDelivery("failure", u) = "failed"
        /\ Len(FailureAlertsFor(u)) = 1
        /\ StreakSinceLastAlert(u)
        /\ counts[u] = failure_threshold + 2

\* C21 second case: without credentials the alert was skipped, the streak
\* went on past the threshold
C21_WitnessSkipped ==
    \E u \in DOMAIN hist :
        /\ LastDelivery("failure", u) = "skipped"
        /\ Len(FailureAlertsFor(u)) = 1
        /\ StreakSinceLastAlert(u)
        /\ counts[u] > failure_threshold

\* C21 third case: without credentials, a second alert after a reset
C21_WitnessAnew ==
    \E u \in DOMAIN hist :
        /\ ~is_configured
        /\ Len(FailureAlertsFor(u)) = 2
        /\ probe.valid /\ probe.url = u /\ HasCall("failure")

\* the clock reading of the latest latency alert dispatched for url u
LatestLatencyAlertAt(u) == LatencyAlertsFor(u)[Len(LatencyAlertsFor(u))].at

\* C22: a latency alert whose dispatch was skipped (no credentials) or failed
\* (send_alert answered false) has stamped the limiter all the same: after
\* every step the stamp of such a URL is the clock reading of that alert, and
\* a later sample of the URL that reaches the latency threshold less than
\* 3600 s past that reading dispatches nothing and leaves the stamp alone.
C22_UndeliveredLatencyAlertStartsCooldown ==
    [][/\ \A u \in DOMAIN hist' :
             (LastDelivery("latency", u) \in {"skipped", "failed"})' =>
                 /\ u \in DOMAIN last_alert_by_url'
                 /\ last_alert_by_url'[u] = LatestLatencyAlertAt(u)'
       /\ (/\ pc = "process"
           /\ LastDelivery("latency", sequence[i]) \in {"skipped", "failed"}
           /\ Qualifies(probe'.result.latency_ms)
           /\ probe'.now - LatestLatencyAlertAt(sequence[i]) < 3600) =>
              /\ latency_alerts' = latency_alerts
              /\ \A k \in 1..Len(probe'.calls) :
                     probe'.calls[k].message.kind # "latency"
              /\ last_delivery' = last_delivery \/ HasCall("failure")'
              /\ last_alert_by_url' = last_alert_by_url]_vars

\* C22 witness: send_alert answered false for the alert stamped at t = 0; a
\* sample at the threshold read at t = 3599 has dispatched no latency alert
C22_Witness ==
    /\ probe.valid
    /\ LastDelivery("latency", probe.url) = "failed"
    /\ Qualifies(probe.result.latency_ms)
    /\ probe.now = cooldown_seconds - 1
    /\ last_alert_by_url[probe.url] = 0
    /\ ~HasCall("latency")
    /\ Len(LatencyAlertsFor(probe.url)) = 1

\* C22 second case: no credentials, the skipped alert started the cooldown
C22_WitnessSkipped ==
    /\ probe.valid
    /\ LastDelivery("latency", probe.url) = "skipped"
    /\ Qualifies(probe.result.latency_ms)
    /\ probe.now - last_alert_by_url[probe.url] < cooldown_seconds
    /\ ~HasCall("latency")
    /\ Len(hist[probe.url]) >= 2

\* C22 third case: the cooldown an undelivered alert started has run out, the
\* next sample is dispatched
C22_WitnessCooldownOver ==
    /\ probe.valid
    /\ ~is_configured
    /\ HasCall("latency")
    /\ probe.now = cooldown_seconds
    /\ Len(LatencyAlertsFor(probe.url)) = 2

\* the threshold the policy works with: the configured one, but at least 1
ClampedThreshold ==
    IF config.alert_consecutive_failures >= 1
    THEN config.alert_consecutive_failures ELSE 1
\* the probes (by number) of u that dispatched a failure alert in the streak
\* u is in: the failures since its latest non-failure
AlertsOfCurrentStreak(u) ==
    LET alerts == FailureAlertsFor(u)
    IN  {alerts[k].nth : k \in {j \in 1..Len(alerts) :
            alerts[j].nth > Len(hist[u]) - TrailingFailures(hist[u])}}

\* C23: in every state, a URL whose streak is at least the threshold (the
\* configured one clamped to 1 or more) has had exactly one failure alert
\* dispatched in that streak, at the probe that made the streak equal to the
\* threshold, and a URL whose streak is below it has had none in the streak;
\* and every step leaves each streak alone, adds 1 to it or resets it to 0.
C23_ThresholdNeverSteppedOver ==
    /\ [](\A u \in DOMAIN hist :
            LET streak == TrailingFailures(hist[u])
            IN  /\ counts[u] = streak
                /\ AlertsOfCurrentStreak(u) =
                      IF streak >= ClampedThreshold
                      THEN {Len(hist[u]) - streak + ClampedThreshold}
                      ELSE {}
                /\ Cardinality({k \in 1..Len(FailureAlertsFor(u)) :
                       FailureAlertsFor(u)[k].nth
                           > Len(hist[u]) - streak})
                      = (IF streak >= ClampedThreshold THEN 1 ELSE 0))
    /\ [][\A u \in DOMAIN counts' :
            counts'[u] \in {Get(counts, u, 0), Get(counts, u, 0) + 1, 0}]_vars

\* C23 witness: threshold 2, a streak of 4, the one dispatch at its 2nd probe
C23_Witness ==
    \E u \in DOMAIN hist :
        /\ config.alert_consecutive_failures = 2
        /\ hist[u] = <<TRUE, TRUE, TRUE, TRUE>>
        /\ counts[u] = 4
        /\ AlertsOfCurrentStreak(u) = {2}

\* C23 second case: a configured threshold of 0 works as 1
C23_WitnessClamped ==
    \E u \in DOMAIN hist :
        /\ config.alert_consecutive_failures = 0
        /\ hist[u] = <<FALSE, TRUE, TRUE>>
        /\ AlertsOfCurrentStreak(u) = {2}
        /\ Len(FailureAlertsFor(u)) = 1

\* C23 third case: the second streak of a URL to reach the threshold
C23_WitnessSecondStreak ==
    \E u \in DOMAIN hist :
        /\ config.alert_consecutive_failures = 1
        /\ hist[u] = <<TRUE, FALSE, TRUE, TRUE>>
        /\ AlertsOfCurrentStreak(u) = {3}
        /\ Len(FailureAlertsFor(u)) = 2

\* how often url u is listed in the configuration, targets and post-load
Listed(u) ==
    Occurrences(u, config.target_urls) + Occurrences(u, config.post_load_urls)
\* the positions of the current cycle already probed that hold url u
ProbedInCycle(u) == {b \in 1..Len(cycle_log) : sequence[b] = u}
CycleOver == pc \in {"returned", "sleeping"} \/ (pc = "exited" /\ cycle > 0)

\* C24: the sequence holds a URL as often as the configuration lists it.  A
\* URL listed k >= 2 times that has failed in every probe has a streak of k
\* times the number of cycles when a cycle is over, and with threshold T >= 1
\* its one failure alert was dispatched by its T-th probe, in cycle
\* ceil(T / k), once it has been probed T times, and none before.  Inside a
\* cycle the streak of a URL is the number of its failed probes since its
\* latest non-failure of that cycle, so 0 right after a non-failure.
C24_StreakCountsProbesNotCycles ==
    /\ cycle > 0 =>
          \A u \in Urls \cup DOMAIN hist : Occurrences(u, sequence) = Listed(u)
    /\ \A u \in DOMAIN hist :
          LET k == Listed(u)
              T == config.alert_consecutive_failures
          IN  (k >= 2 /\ AlwaysFailed(u) /\ T >= 1) =>
                 /\ CycleOver => (counts[u] = k * cycle /\ Len(hist[u]) = k * cycle)
                 /\ FailureAlertsFor(u) =
                       IF Len(hist[u]) >= T
                       THEN <<[url |-> u, cycle |-> (T + k - 1) \div k, nth |-> T]>>
                       ELSE <<>>
    /\ \A u \in DOMAIN hist :
          \A b \in ProbedInCycle(u) :
             cycle_log[b] # "failure" =>
                counts[u] = Cardinality({c \in ProbedInCycle(u) : c > b})
                \/ \E c \in ProbedInCycle(u) : c > b /\ cycle_log[c] # "failure"

\* C24 witness: one URL listed as the only target and as post-load, threshold
\* 3: the alert was dispatched in cycle 2, by the URL's third probe
C24_Witness ==
    /\ config.target_urls = <<OtherUrl>> /\ config.post_load_urls = <<OtherUrl>>
    /\ config.alert_consecutive_failures = 3
    /\ CycleOver /\ cycle = 2
    /\ counts[OtherUrl] = 4
    /\ FailureAlertsFor(OtherUrl) = <<[url |-> OtherUrl, cycle |-> 2, nth |-> 3]>>

\* C24 second case: a URL listed three times reaches threshold 3 in cycle 1
C24_WitnessThreeTimes ==
    /\ sequence = <<OtherUrl, OtherUrl, OtherUrl>>
    /\ config.alert_consecutive_failures = 3
    /\ CycleOver /\ cycle = 1
    /\ FailureAlertsFor(OtherUrl) = <<[url |-> OtherUrl, cycle |-> 1, nth |-> 3]>>

\* C24 third case: failure, then non-failure of the same URL in one cycle
C24_WitnessResetInsideCycle ==
    /\ sequence = <<OtherUrl, OtherUrl>>
    /\ cycle = 1
    /\ cycle_log = <<"failure", "success">>
    /\ counts[OtherUrl] = 0
====
